---- MODULE Spec2Model ----
(***************************************************************************)
(* Model of app.py: the Flask air-quality dashboard.  One GET / request is *)
(* load_data() followed by the ten chart sections of dashboard() and the   *)
(* final render_template call.  A DataFrame is a record of its column set  *)
(* and its sequence of rows; a row is a function from column names to      *)
(* values.  PM2.5, Population_Density and Humidity carry integer values;   *)
(* the six other raw columns are never read by value by the code that is   *)
(* modelled here and carry the token Opaque.                               *)
(***************************************************************************)
EXTENDS Integers, Sequences, FiniteSets, TLC

VARIABLES csv, lowessOK, templateOK, pc, df, df_sorted, figs, stats,
          response, error, pos, clobbered

vars == <<csv, lowessOK, templateOK, pc, df, df_sorted, figs, stats,
          response, error, pos, clobbered>>

(***************************************************************************)
(* Constants of the program.                                               *)
(***************************************************************************)
WHO_PM25_LIMIT == 25

AQ_BINS == <<0, 12, 35, 55, 150>>

AQ_LABELS == <<"Good", "Moderate", "Unhealthy", "Very Unhealthy", "Hazardous">>

HUMIDITY_BINS == <<0, 30, 60, 100>>

HUMIDITY_LABELS == <<"Low (<30%)", "Medium (30-60%)", "High (>60%)">>

HAZARDOUS_LINE == 150

ROLLING_WINDOW == 20

RawCols == {"PM2.5", "PM10", "NO2", "SO2", "CO",
            "Proximity_to_Industrial_Areas", "Population_Density",
            "Temperature", "Humidity"}

DerivedCols == {"Air_Quality_Level", "Exceeds_WHO", "Risk_Quadrant", "Humidity_Bin"}

NaN == "NaN"

Opaque == "num"

(***************************************************************************)
(* Bounds of the model.                                                    *)
(***************************************************************************)
MaxRows == 3

(***************************************************************************)
(* Input readings.  Reading(pm, dens, hum) is one CSV row.                 *)
(***************************************************************************)
Reading(pm, dens, hum) ==
    [c \in RawCols |->
        CASE c = "PM2.5" -> pm
          [] c = "Population_Density" -> dens
          [] c = "Humidity" -> hum
          [] OTHER -> Opaque]

Readings ==
    { Reading(0, 100, 45),   Reading(10, 100, 30),  Reading(12, 900, 100),
      Reading(25, 100, 60),  Reading(26, 900, 0),   Reading(30, 500, 60),
      Reading(35, 500, 100), Reading(55, 900, 30),  Reading(150, 500, 0),
      Reading(151, 100, 45), Reading(200, 900, 0) }

Datasets(n) == UNION { [1..k -> Readings] : k \in 1..n }

Restrict(f, S) == [c \in S |-> f[c]]

(***************************************************************************)
(* pandas / numpy primitives, as the code uses them.                       *)
(***************************************************************************)
Column(frame, c) == [k \in 1..Len(frame.rows) |-> frame.rows[k][c]]

\* frame[c] = values : attach (or overwrite) a column
SetColumn(frame, c, values) ==
    [columns |-> frame.columns \cup {c},
     rows |-> [k \in 1..Len(frame.rows) |->
                 [d \in frame.columns \cup {c} |->
                     IF d = c THEN values[k] ELSE frame.rows[k][d]]]]

\* pd.cut with right=False: the intervals are [bins[i], bins[i+1])
CutLeftClosed(x, bins, labels, openEnded) ==
    IF \E i \in 1..(Len(bins) - 1) : bins[i] <= x /\ x < bins[i + 1]
    THEN labels[CHOOSE i \in 1..(Len(bins) - 1) : bins[i] <= x /\ x < bins[i + 1]]
    ELSE IF openEnded /\ x >= bins[Len(bins)]
         THEN labels[Len(bins)]
         ELSE NaN

\* pd.cut(x, bins, labels) with the default right=True, include_lowest=False:
\* the intervals are (bins[i], bins[i+1]]; openEnded adds (bins[last], inf].
Cut(x, bins, labels, openEnded) ==
    IF \E i \in 1..(Len(bins) - 1) : bins[i] < x /\ x <= bins[i + 1]
    THEN labels[CHOOSE i \in 1..(Len(bins) - 1) : bins[i] < x /\ x <= bins[i + 1]]
    ELSE IF openEnded /\ x > bins[Len(bins)]
         THEN labels[Len(bins)]
         ELSE NaN

RECURSIVE InsertSorted(_, _)
\* insert x after every element <= x of the ascending sequence s
InsertSorted(x, s) ==
    IF s = <<>> THEN <<x>>
    ELSE IF s[Len(s)] <= x THEN Append(s, x)
    ELSE Append(InsertSorted(x, SubSeq(s, 1, Len(s) - 1)), s[Len(s)])

RECURSIVE SortAsc(_)
SortAsc(s) ==
    IF s = <<>> THEN <<>>
    ELSE InsertSorted(s[Len(s)], SortAsc(SubSeq(s, 1, Len(s) - 1)))

\* twice Series.median(): the middle value, or the mean of the two middle ones
Median2(s) ==
    LET t == SortAsc(s)
        n == Len(t)
    IN IF n % 2 = 1 THEN 2 * t[(n + 1) \div 2]
       ELSE t[n \div 2] + t[n \div 2 + 1]

RECURSIVE InsertRow(_, _, _)
InsertRow(r, s, c) ==
    IF s = <<>> THEN <<r>>
    ELSE IF s[Len(s)][c] <= r[c] THEN Append(s, r)
    ELSE Append(InsertRow(r, SubSeq(s, 1, Len(s) - 1), c), s[Len(s)])

RECURSIVE SortRows(_, _)
SortRows(s, c) ==
    IF s = <<>> THEN <<>>
    ELSE InsertRow(s[Len(s)], SortRows(SubSeq(s, 1, Len(s) - 1), c), c)

\* DataFrame.sort_values(c): a new frame, the rows in ascending order of c
SortValues(frame, c) == [columns |-> frame.columns, rows |-> SortRows(frame.rows, c)]

RECURSIVE SumSeq(_)
SumSeq(s) == IF s = <<>> THEN 0 ELSE s[Len(s)] + SumSeq(SubSeq(s, 1, Len(s) - 1))

\* Series.rolling(w, center=True).mean(), each mean kept as the window's sum:
\* the window of entry k is k - w/2 .. k - w/2 + w - 1, NaN unless it is full
RollingCentered(s, w) ==
    [k \in 1..Len(s) |->
        LET lo == k - (w \div 2)
            hi == lo + w - 1
        IN IF lo >= 1 /\ hi <= Len(s) THEN SumSeq(SubSeq(s, lo, hi)) ELSE NaN]

\* len(df[df[c] == v]) and len(df[df[c] > t]) on the column s
CountEqual(s, v) == Cardinality({k \in 1..Len(s) : s[k] = v})

CountAbove(s, t) == Cardinality({k \in 1..Len(s) : s[k] > t})

\* Series.value_counts() of an object column: the values present
ValueCounts(s) ==
    [v \in {s[k] : k \in 1..Len(s)} |-> Cardinality({k \in 1..Len(s) : s[k] = v})]

\* Series.value_counts() of a categorical column: every category, NaN dropped
CategoryCounts(s, labels) ==
    [v \in {labels[i] : i \in 1..Len(labels)} |->
        Cardinality({k \in 1..Len(s) : s[k] = v})]

(***************************************************************************)
(* load_data(): read the CSV, attach Air_Quality_Level and Exceeds_WHO.    *)
(***************************************************************************)
ReadCsv(file) == [columns |-> file.header, rows |-> file.rows]

AirQualityLevel(pm) == Cut(pm, AQ_BINS, AQ_LABELS, TRUE)

\* the comparison taken as >=
ExceedsWHOAtLeast(pm) == IF pm >= WHO_PM25_LIMIT THEN "Exceeds" ELSE "Within Limits"

ExceedsWHO(pm) == IF pm > WHO_PM25_LIMIT THEN "Exceeds" ELSE "Within Limits"

load_data(file) ==
    LET raw == ReadCsv(file)
        pm == Column(raw, "PM2.5")
        d1 == SetColumn(raw, "Air_Quality_Level",
                        [k \in 1..Len(pm) |-> AirQualityLevel(pm[k])])
    IN SetColumn(d1, "Exceeds_WHO", [k \in 1..Len(pm) |-> ExceedsWHO(pm[k])])

(***************************************************************************)
(* Derivations made inside dashboard().                                    *)
(***************************************************************************)
\* the comparisons taken as >=
RiskQuadrantAtLeast(pm, dens, pmMedian2, densMedian2) ==
    IF 2 * pm >= pmMedian2 /\ 2 * dens >= densMedian2 THEN "High Risk" ELSE "Other"

RiskQuadrant(pm, dens, pmMedian2, densMedian2) ==
    IF 2 * pm > pmMedian2 /\ 2 * dens > densMedian2 THEN "High Risk" ELSE "Other"

HumidityBin(hum) == Cut(hum, HUMIDITY_BINS, HUMIDITY_LABELS, FALSE)

WithRiskQuadrant(frame) ==
    LET pm == Column(frame, "PM2.5")
        dens == Column(frame, "Population_Density")
    IN SetColumn(frame, "Risk_Quadrant",
                 [k \in 1..Len(pm) |->
                     RiskQuadrant(pm[k], dens[k], Median2(pm), Median2(dens))])

WithHumidityBin(frame) ==
    LET hum == Column(frame, "Humidity")
    IN SetColumn(frame, "Humidity_Bin", [k \in 1..Len(hum) |-> HumidityBin(hum[k])])

\* describe(include='all'): every column
DescribeAll(frame) ==
    [c \in frame.columns |->
        IF c \in {"PM2.5", "Population_Density", "Humidity"}
        THEN LET s == Column(frame, c)
             IN [count |-> Len(s), sum |-> SumSeq(s), median2 |-> Median2(s),
                 min |-> SortAsc(s)[1], max |-> SortAsc(s)[Len(s)]]
        ELSE [count |-> Len(frame.rows)]]

\* df.describe(): the numeric columns only; mean and quartiles kept as the
\* count, the sum and twice the median
Describe(frame) ==
    [c \in frame.columns \cap RawCols |->
        IF c \in {"PM2.5", "Population_Density", "Humidity"}
        THEN LET s == Column(frame, c)
             IN [count |-> Len(s), sum |-> SumSeq(s), median2 |-> Median2(s),
                 min |-> SortAsc(s)[1], max |-> SortAsc(s)[Len(s)]]
        ELSE [count |-> Len(frame.rows)]]

(***************************************************************************)
(* The chart sections of dashboard().  A chart specification records the   *)
(* data the figure is bound to and its overlays.  Locals(d, ds, f) is the  *)
(* handler's frame: df, df_sorted and the figures built so far.            *)
(***************************************************************************)
Locals(d, ds, f) == [df |-> d, df_sorted |-> ds, figs |-> f]

SetFig(L, i, fig) == [L EXCEPT !.figs = (i :> fig) @@ L.figs]

AddTrace(L, i, trace) ==
    [L EXCEPT !.figs = [L.figs EXCEPT ![i] =
        [L.figs[i] EXCEPT !.traces = Append(L.figs[i].traces, trace)]]]

AddOverlay(L, i, overlay) ==
    [L EXCEPT !.figs = [L.figs EXCEPT ![i] =
        [L.figs[i] EXCEPT !.overlays = Append(L.figs[i].overlays, overlay)]]]

Scatter(name, x, y) == [name |-> name, x |-> x, y |-> y]

Figure(kind, traces, overlays) == [kind |-> kind, traces |-> traces, overlays |-> overlays]

HLine(y) == [hline |-> y]

\* 1. WHO compliance donut
Fig1(L) ==
    SetFig(L, 1, Figure("pie", <<ValueCounts(Column(L.df, "Exceeds_WHO"))>>, <<>>))

\* 2. industrial proximity scatter, WHO line
Fig2(L) ==
    SetFig(L, 2, Figure("scatter",
        <<Scatter("points", Column(L.df, "Proximity_to_Industrial_Areas"),
                  Column(L.df, "PM2.5"))>>,
        <<HLine(WHO_PM25_LIMIT)>>))

\* 3. population density line chart: the four statements of the section
Fig3Sort(L) == [L EXCEPT !.df_sorted = SortValues(L.df, "Population_Density")]

Fig3Line(L) ==
    SetFig(L, 3, Figure("line",
        <<Scatter("Actual Readings", Column(L.df_sorted, "Population_Density"),
                  Column(L.df_sorted, "PM2.5"))>>, <<>>))

Fig3Rolling(L) ==
    AddTrace(L, 3, Scatter("20-Point Rolling Avg",
        Column(L.df_sorted, "Population_Density"),
        RollingCentered(Column(L.df_sorted, "PM2.5"), ROLLING_WINDOW)))

Fig3HLine(L) == AddOverlay(L, 3, HLine(WHO_PM25_LIMIT))

\* 4. pollutant correlation heatmap
Fig4(L) ==
    SetFig(L, 4, Figure("heatmap",
        <<[c \in {"PM2.5", "PM10", "NO2", "SO2", "CO"} |-> Column(L.df, c)]>>, <<>>))

\* 5. temperature scatter, size = density, colour = proximity
Fig5(L) ==
    SetFig(L, 5, Figure("scatter",
        <<[x |-> Column(L.df, "Temperature"), y |-> Column(L.df, "PM2.5"),
           size |-> Column(L.df, "Population_Density"),
           color |-> Column(L.df, "Proximity_to_Industrial_Areas")]>>,
        <<HLine(WHO_PM25_LIMIT)>>))

\* the frame sorted in place before the column is attached
Fig6DeriveSorted(L) ==
    [L EXCEPT !.df = WithRiskQuadrant(SortValues(L.df, "Population_Density"))]

\* 6. high-risk zones: attach Risk_Quadrant, scatter, count annotation
Fig6Derive(L) == [L EXCEPT !.df = WithRiskQuadrant(L.df)]

Fig6Scatter(L) ==
    SetFig(L, 6, Figure("scatter",
        <<[x |-> Column(L.df, "Population_Density"), y |-> Column(L.df, "PM2.5"),
           color |-> Column(L.df, "Risk_Quadrant")]>>, <<>>))

Fig6Annotate(L) ==
    AddOverlay(L, 6,
        [annotation |-> CountEqual(Column(L.df, "Risk_Quadrant"), "High Risk")])

\* 7. PM2.5 against NO2, colour = Air_Quality_Level, least-squares trend
Fig7(L) ==
    SetFig(L, 7, Figure("scatter",
        <<[x |-> Column(L.df, "PM2.5"), y |-> Column(L.df, "NO2"),
           size |-> Column(L.df, "CO"), color |-> Column(L.df, "Air_Quality_Level")],
          [name |-> "Trend", x |-> Column(L.df, "PM2.5"),
           fit |-> <<Column(L.df, "PM2.5"), Column(L.df, "NO2")>>]>>, <<>>))

\* the reference line counting PM2.5 >= 150
Fig8AtLeast(L) ==
    SetFig(L, 8, Figure("bar",
        <<CategoryCounts(Column(L.df, "Air_Quality_Level"), AQ_LABELS)>>,
        <<HLine(CountAbove(Column(L.df, "PM2.5"), HAZARDOUS_LINE - 1))>>))

\* 8. bar chart of Air_Quality_Level counts, line at the count of PM2.5 > 150
Fig8(L) ==
    SetFig(L, 8, Figure("bar",
        <<CategoryCounts(Column(L.df, "Air_Quality_Level"), AQ_LABELS)>>,
        <<HLine(CountAbove(Column(L.df, "PM2.5"), HAZARDOUS_LINE))>>))

\* 9. humidity: attach Humidity_Bin, scatter, trend (LOESS or the rolling
\* fallback over df_sorted), bar of the per-bin count and sum
Fig9Derive(L) == [L EXCEPT !.df = WithHumidityBin(L.df)]

Fig9Scatter(L) ==
    SetFig(L, 9, Figure("subplots",
        <<Scatter("Individual Readings", Column(L.df, "Humidity"),
                  Column(L.df, "PM2.5"))>>, <<>>))

Fig9Trend(L, lowess) ==
    IF lowess
    THEN AddTrace(L, 9, [name |-> "Trend",
                         lowess |-> <<Column(L.df, "PM2.5"), Column(L.df, "Humidity")>>])
    ELSE [L EXCEPT !.df_sorted = SortValues(L.df, "Humidity")]

Fig9Fallback(L, lowess) ==
    IF lowess THEN L
    ELSE AddTrace(L, 9, Scatter("Rolling Avg", Column(L.df_sorted, "Humidity"),
             RollingCentered(Column(L.df_sorted, "PM2.5"), ROLLING_WINDOW)))

BinAvg(frame) ==
    LET bins == Column(frame, "Humidity_Bin")
        pm == Column(frame, "PM2.5")
        observed == {bins[k] : k \in 1..Len(bins)} \ {NaN}
        members(b) == {k \in 1..Len(bins) : bins[k] = b}
        RECURSIVE SumOver(_)
        SumOver(S) == IF S = {} THEN 0
                      ELSE LET k == CHOOSE j \in S : TRUE IN pm[k] + SumOver(S \ {k})
    IN [b \in observed |-> [count |-> Cardinality(members(b)), sum |-> SumOver(members(b))]]

Fig9Bars(L) == AddTrace(L, 9, [name |-> "Average PM2.5", bars |-> BinAvg(L.df)])

\* 10. 3-D scatter coloured by density
Fig10(L) ==
    SetFig(L, 10, Figure("scatter_3d",
        <<[x |-> Column(L.df, "PM2.5"), y |-> Column(L.df, "NO2"),
           z |-> Column(L.df, "CO"), color |-> Column(L.df, "Population_Density")]>>,
        <<>>))

\* the steps of section i: a step is one statement, or the run of statements
\* that touch nothing but the section's own figure
NStmts(i) == CASE i = 3 -> 3 [] i = 6 -> 2 [] i = 9 -> 5 [] OTHER -> 1

Stmt(i, j, L, lowess) ==
    CASE i = 1 -> Fig1(L)
      [] i = 2 -> Fig2(L)
      [] i = 3 /\ j = 1 -> Fig3Sort(L)
      [] i = 3 /\ j = 2 -> Fig3Line(L)
      [] i = 3 /\ j = 3 -> Fig3HLine(Fig3Rolling(L))
      [] i = 4 -> Fig4(L)
      [] i = 5 -> Fig5(L)
      [] i = 6 /\ j = 1 -> Fig6Derive(L)
      [] i = 6 /\ j = 2 -> Fig6Annotate(Fig6Scatter(L))
      [] i = 7 -> Fig7(L)
      [] i = 8 -> Fig8(L)
      [] i = 9 /\ j = 1 -> Fig9Derive(L)
      [] i = 9 /\ j = 2 -> Fig9Scatter(L)
      [] i = 9 /\ j = 3 -> Fig9Trend(L, lowess)
      [] i = 9 /\ j = 4 -> Fig9Fallback(L, lowess)
      [] i = 9 /\ j = 5 -> Fig9Bars(L)
      [] i = 10 -> Fig10(L)

RECURSIVE RunFrom(_, _, _, _)
\* statements j .. NStmts(i) of section i, in order
RunFrom(i, j, L, lowess) ==
    IF j > NStmts(i) THEN L ELSE RunFrom(i, j + 1, Stmt(i, j, L, lowess), lowess)

Section(i, L, lowess) == RunFrom(i, 1, L, lowess)

\* the columns section i reads before it attaches its own, and the exception a missing one raises
Needs(i) ==
    CASE i = 1 -> {"Exceeds_WHO"}
      [] i = 2 -> {"Proximity_to_Industrial_Areas", "PM2.5"}
      [] i = 3 -> {"Population_Density", "PM2.5"}
      [] i = 4 -> {"PM2.5", "PM10", "NO2", "SO2", "CO"}
      [] i = 5 -> {"Temperature", "PM2.5", "Population_Density",
                   "Proximity_to_Industrial_Areas"}
      [] i = 6 -> {"PM2.5", "Population_Density"}
      [] i = 7 -> {"PM2.5", "NO2", "CO", "Air_Quality_Level"}
      [] i = 8 -> {"Air_Quality_Level", "PM2.5"}
      [] i = 9 -> {"Humidity", "PM2.5"}
      [] i = 10 -> {"PM2.5", "NO2", "CO", "Population_Density"}

Raises(i) == IF i \in {2, 5, 7, 10} THEN "ValueError" ELSE "KeyError"

(***************************************************************************)
(* One request: GET / runs dashboard() from top to bottom.                 *)
(***************************************************************************)
EmptyFrame == [columns |-> {}, rows |-> <<>>]

NoResponse == [status |-> 0, page |-> <<>>]

ErrorResponse == [status |-> 500, page |-> <<>>]

PcOf(i) == <<"q1", "q2", "q3", "q4", "q5", "q6", "q7", "q8", "q9", "q10", "render">>[i]

ChartStage == {PcOf(i) : i \in 1..11} \cup {"done"}

InitHandler ==
    /\ pc = "load"
    /\ df = EmptyFrame
    /\ df_sorted = EmptyFrame
    /\ figs = <<>>
    /\ stats = <<>>
    /\ response = NoResponse
    /\ error = "none"
    /\ pos = [i \in 1..11 |-> 0]
    /\ clobbered = FALSE

\* a well-formed data.csv and the template in place
InitGood ==
    /\ \E d \in Datasets(MaxRows) : csv = [exists |-> TRUE, header |-> RawCols, rows |-> d]
    /\ lowessOK \in BOOLEAN
    /\ templateOK = TRUE

\* a one-row data.csv with one column missing, no data.csv, or no template
InitFaulty ==
    /\ lowessOK \in BOOLEAN
    /\ \/ /\ \E r \in Readings, c \in RawCols :
                csv = [exists |-> TRUE, header |-> RawCols \ {c},
                       rows |-> <<Restrict(r, RawCols \ {c})>>]
          /\ templateOK = TRUE
       \/ /\ csv = [exists |-> FALSE, header |-> {}, rows |-> <<>>]
          /\ templateOK = TRUE
       \/ /\ \E r \in Readings : csv = [exists |-> TRUE, header |-> RawCols, rows |-> <<r>>]
          /\ templateOK = FALSE

Init == InitHandler /\ (InitGood \/ InitFaulty)

\* an exception leaves dashboard(); Flask answers 500
Abort(kind) ==
    /\ pc' = "failed"
    /\ error' = kind
    /\ response' = ErrorResponse
    /\ UNCHANGED <<df, df_sorted, figs, stats>>

\* line 33: df = load_data()
LoadDataLenient ==
    /\ pc = "load"
    /\ IF ~csv.exists
       THEN Abort("FileNotFoundError")
       ELSE /\ df' = IF "PM2.5" \in csv.header THEN load_data(csv) ELSE ReadCsv(csv)
            /\ pc' = PcOf(1)
            /\ UNCHANGED <<df_sorted, figs, stats, response, error>>
    /\ UNCHANGED <<csv, lowessOK, templateOK, pos, clobbered>>

LoadData ==
    /\ pc = "load"
    /\ IF ~csv.exists
       THEN Abort("FileNotFoundError")
       ELSE IF "PM2.5" \notin csv.header
            THEN Abort("KeyError")
            ELSE /\ df' = load_data(csv)
                 /\ pc' = PcOf(1)
                 /\ UNCHANGED <<df_sorted, figs, stats, response, error>>
    /\ UNCHANGED <<csv, lowessOK, templateOK, pos, clobbered>>

\* a section that swallows its exception and goes on without its chart
ChartLenient(i) ==
    /\ pc = PcOf(i)
    /\ IF Needs(i) \subseteq df.columns
       THEN LET L == Section(i, Locals(df, df_sorted, figs), lowessOK)
            IN /\ df' = L.df
               /\ df_sorted' = L.df_sorted
               /\ figs' = L.figs
       ELSE UNCHANGED <<df, df_sorted, figs>>
    /\ pc' = PcOf(i + 1)
    /\ UNCHANGED <<stats, response, error>>
    /\ UNCHANGED <<csv, lowessOK, templateOK, pos, clobbered>>

\* chart section i, run to its end or to the exception of a missing column
Chart(i) ==
    /\ pc = PcOf(i)
    /\ IF Needs(i) \subseteq df.columns
       THEN LET L == Section(i, Locals(df, df_sorted, figs), lowessOK)
            IN /\ df' = L.df
               /\ df_sorted' = L.df_sorted
               /\ figs' = L.figs
               /\ pc' = PcOf(i + 1)
               /\ UNCHANGED <<stats, response, error>>
       ELSE Abort(Raises(i))
    /\ UNCHANGED <<csv, lowessOK, templateOK, pos, clobbered>>

Q1 == pc = "q1" /\ Chart(1)

Q2 == pc = "q2" /\ Chart(2)

Q3 == pc = "q3" /\ Chart(3)

Q4 == pc = "q4" /\ Chart(4)

Q5 == pc = "q5" /\ Chart(5)

Q6 == pc = "q6" /\ Chart(6)

Q7 == pc = "q7" /\ Chart(7)

Q8 == pc = "q8" /\ Chart(8)

Q9 == pc = "q9" /\ Chart(9)

Q10 == pc = "q10" /\ Chart(10)

\* pio.to_html(fig, full_html=False): the figure wrapped in a markup fragment
ToHtml(fig) == <<"div", fig>>

\* lines 395-408: the arguments are evaluated, then render_template runs
Render ==
    /\ pc = "render"
    /\ stats' = <<Describe(df)>>
    /\ IF templateOK
       THEN /\ response' = [status |-> 200,
                            page |-> <<[charts |-> [i \in DOMAIN figs |-> ToHtml(figs[i])],
                                        stats |-> Describe(df)]>>]
            /\ pc' = "done"
            /\ UNCHANGED error
       ELSE /\ response' = ErrorResponse
            /\ pc' = "failed"
            /\ error' = "TemplateNotFound"
    /\ UNCHANGED <<df, df_sorted, figs>>
    /\ UNCHANGED <<csv, lowessOK, templateOK, pos, clobbered>>

Next ==
    \/ LoadData
    \/ Q1
    \/ Q2
    \/ Q3
    \/ Q4
    \/ Q5
    \/ Q6
    \/ Q7
    \/ Q8
    \/ Q9
    \/ Q10
    \/ Render

Spec == Init /\ [][Next]_vars

(***************************************************************************)
(* The same request with the ten chart sections and the summary run as     *)
(* tasks over the one frame of dashboard(): a step runs the next statement *)
(* of some section, so sections run in any order and interleave.           *)
(***************************************************************************)
\* a file whose order by Population_Density differs from its order by Humidity
ParDatasets == { <<Reading(200, 900, 0), Reading(30, 500, 60), Reading(10, 100, 30)>> }

InitPar ==
    /\ InitHandler
    /\ \E d \in ParDatasets : csv = [exists |-> TRUE, header |-> RawCols, rows |-> d]
    /\ lowessOK \in BOOLEAN
    /\ templateOK = TRUE

ParLoad ==
    /\ pc = "load"
    /\ df' = load_data(csv)
    /\ pc' = "par"
    /\ UNCHANGED <<csv, lowessOK, templateOK, df_sorted, figs, stats, response,
                   error, pos, clobbered>>

\* section i is between its assignment of df_sorted and its last read of it
HoldsSorted(i) ==
    \/ i = 3 /\ pos[3] \in {1, 2}
    \/ i = 9 /\ pos[9] = 3 /\ ~lowessOK

\* statement j of section i assigns df_sorted
AssignsSorted(i, j) ==
    \/ i = 3 /\ j = 1
    \/ i = 9 /\ j = 3 /\ ~lowessOK

ParStmt ==
    /\ pc = "par"
    /\ \E i \in 1..10 :
          /\ pos[i] < NStmts(i)
          /\ LET L == Stmt(i, pos[i] + 1, Locals(df, df_sorted, figs), lowessOK)
             IN /\ df' = L.df
                /\ df_sorted' = L.df_sorted
                /\ figs' = L.figs
          /\ pos' = [pos EXCEPT ![i] = @ + 1]
          /\ clobbered' = (clobbered \/
                (AssignsSorted(i, pos[i] + 1) /\ \E o \in {3, 9} \ {i} : HoldsSorted(o)))
    /\ UNCHANGED <<csv, lowessOK, templateOK, pc, stats, response, error>>

ParSummary ==
    /\ pc = "par"
    /\ pos[11] = 0
    /\ stats' = <<Describe(df)>>
    /\ pos' = [pos EXCEPT ![11] = 1]
    /\ UNCHANGED <<csv, lowessOK, templateOK, pc, df, df_sorted, figs, response,
                   error, clobbered>>

ParJoin ==
    /\ pc = "par"
    /\ \A i \in 1..10 : pos[i] = NStmts(i)
    /\ pos[11] = 1
    /\ pc' = "joined"
    /\ UNCHANGED <<csv, lowessOK, templateOK, df, df_sorted, figs, stats, response,
                   error, pos, clobbered>>

NextPar ==
    \/ ParLoad
    \/ ParStmt
    \/ ParSummary
    \/ ParJoin

SpecPar == InitPar /\ [][NextPar]_vars

RECURSIVE RunSections(_, _, _)
\* sections i .. 10 in the order of the source
RunSections(i, L, lowess) ==
    IF i > 10 THEN L ELSE RunSections(i + 1, Section(i, L, lowess), lowess)

\* what dashboard() builds from the file when it runs top to bottom
InOrder(file, lowess) ==
    RunSections(1, Locals(load_data(file), EmptyFrame, <<>>), lowess)

(***************************************************************************)
(* Properties.                                                             *)
(***************************************************************************)
Loaded == "Air_Quality_Level" \in df.columns

Rows == 1..Len(df.rows)

\* C1 (as stated): a PM2.5 value equal to a bin boundary 12, 35, 55 or 150 gets
\* the upper of the two adjacent categories (bins closed below, open above).
C1_BoundaryGetsUpperCategory ==
    Loaded =>
        \A k \in Rows :
            /\ df.rows[k]["PM2.5"] = 12 => df.rows[k]["Air_Quality_Level"] = "Moderate"
            /\ df.rows[k]["PM2.5"] = 35 => df.rows[k]["Air_Quality_Level"] = "Unhealthy"
            /\ df.rows[k]["PM2.5"] = 55 => df.rows[k]["Air_Quality_Level"] = "Very Unhealthy"
            /\ df.rows[k]["PM2.5"] = 150 => df.rows[k]["Air_Quality_Level"] = "Hazardous"

\* C1 (amended): a PM2.5 value equal to a bin boundary 12, 35, 55 or 150 gets the
\* lower of the two adjacent categories (12 -> Good, 35 -> Moderate, 55 ->
\* Unhealthy, 150 -> Very Unhealthy): the bins are open below and closed above.
C1_BoundaryGetsLowerCategory ==
    Loaded =>
        \A k \in Rows :
            /\ df.rows[k]["PM2.5"] = 12 => df.rows[k]["Air_Quality_Level"] = "Good"
            /\ df.rows[k]["PM2.5"] = 35 => df.rows[k]["Air_Quality_Level"] = "Moderate"
            /\ df.rows[k]["PM2.5"] = 55 => df.rows[k]["Air_Quality_Level"] = "Unhealthy"
            /\ df.rows[k]["PM2.5"] = 150 => df.rows[k]["Air_Quality_Level"] = "Very Unhealthy"

C1_Witness ==
    /\ Loaded
    /\ \E k \in Rows : df.rows[k]["PM2.5"] = 12
    /\ \E k \in Rows : df.rows[k]["PM2.5"] = 35
    /\ \E k \in Rows : df.rows[k]["PM2.5"] = 150 /\
                       df.rows[k]["Air_Quality_Level"] = "Very Unhealthy"

\* C2: when every PM2.5 value is non-negative (0 included), every row's
\* Air_Quality_Level after load_data is one of the five categories.
C2_EveryRowHasCategory ==
    (Loaded /\ \A k \in Rows : df.rows[k]["PM2.5"] >= 0) =>
        \A k \in Rows :
            df.rows[k]["Air_Quality_Level"] \in
                {"Good", "Moderate", "Unhealthy", "Very Unhealthy", "Hazardous"}

\* C3: Humidity 0 is binned 'Low (<30%)', Humidity 30 'Medium (30-60%)' and
\* Humidity 60 'High (>60%)'.
C3_HumidityBoundaries ==
    "Humidity_Bin" \in df.columns =>
        \A k \in Rows :
            /\ df.rows[k]["Humidity"] = 0 => df.rows[k]["Humidity_Bin"] = "Low (<30%)"
            /\ df.rows[k]["Humidity"] = 30 => df.rows[k]["Humidity_Bin"] = "Medium (30-60%)"
            /\ df.rows[k]["Humidity"] = 60 => df.rows[k]["Humidity_Bin"] = "High (>60%)"

\* C4: for every row, Exceeds_WHO is 'Exceeds' iff PM2.5 is strictly greater
\* than 25 and 'Within Limits' otherwise; PM2.5 = 25 gives 'Within Limits'.
C4_ExceedsIffAbove25 ==
    "Exceeds_WHO" \in df.columns =>
        \A k \in Rows :
            /\ df.rows[k]["Exceeds_WHO"] \in {"Exceeds", "Within Limits"}
            /\ df.rows[k]["Exceeds_WHO"] = "Exceeds" <=> df.rows[k]["PM2.5"] > 25

C4_Witness ==
    /\ pc = "done"
    /\ \E k \in Rows : df.rows[k]["PM2.5"] = 25 /\ df.rows[k]["Exceeds_WHO"] = "Within Limits"
    /\ \E k \in Rows : df.rows[k]["PM2.5"] = 26 /\ df.rows[k]["Exceeds_WHO"] = "Exceeds"

Scenario ==
    /\ Len(csv.rows) = 3
    /\ csv.header = RawCols
    /\ [k \in 1..3 |-> csv.rows[k]["PM2.5"]] = <<10, 30, 200>>
    /\ [k \in 1..3 |-> csv.rows[k]["Population_Density"]] = <<100, 500, 900>>

\* C5 (as stated): PM2.5 = [10, 30, 200] with Population_Density =
\* [100, 500, 900] gives Air_Quality_Level = [Good, Unhealthy, Hazardous],
\* Exceeds_WHO = [Within Limits, Exceeds, Exceeds], Risk_Quadrant =
\* [Other, Other, High Risk], median PM2.5 30 and median density 500.
C5_ScenarioAsStated ==
    (Scenario /\ "Risk_Quadrant" \in df.columns) =>
        /\ Column(df, "Air_Quality_Level") = <<"Good", "Unhealthy", "Hazardous">>
        /\ Column(df, "Exceeds_WHO") = <<"Within Limits", "Exceeds", "Exceeds">>
        /\ Column(df, "Risk_Quadrant") = <<"Other", "Other", "High Risk">>
        /\ Median2(Column(df, "PM2.5")) = 2 * 30
        /\ Median2(Column(df, "Population_Density")) = 2 * 500

\* C5 (amended): the same scenario gives Air_Quality_Level =
\* [Good, Moderate, Hazardous] (30 lies in (12, 35]); Exceeds_WHO, Risk_Quadrant
\* and the two medians are as stated, the row equal to the medians being 'Other'.
C5_ScenarioModerate ==
    (Scenario /\ "Risk_Quadrant" \in df.columns) =>
        /\ Column(df, "Air_Quality_Level") = <<"Good", "Moderate", "Hazardous">>
        /\ Column(df, "Exceeds_WHO") = <<"Within Limits", "Exceeds", "Exceeds">>
        /\ Column(df, "Risk_Quadrant") = <<"Other", "Other", "High Risk">>
        /\ Median2(Column(df, "PM2.5")) = 2 * 30
        /\ Median2(Column(df, "Population_Density")) = 2 * 500

C5_Witness == Scenario /\ pc = "done" /\ "Risk_Quadrant" \in df.columns

MissingPM25 == csv.exists /\ "PM2.5" \notin csv.header

\* C6 (as stated): when the CSV header lacks PM2.5, load_data fails with the
\* error kind DataLoadError, no chart is built and the page is never rendered.
C6_DataLoadError ==
    MissingPM25 =>
        /\ pc \in {"load", "failed"}
        /\ figs = <<>>
        /\ response.page = <<>>
        /\ pc = "failed" => error = "DataLoadError"

\* C6 (amended): when the CSV header lacks PM2.5, load_data fails with a
\* KeyError (the program defines no DataLoadError), the request ends with
\* status 500, no chart is built and the page is never rendered.
C6_KeyError ==
    MissingPM25 =>
        /\ pc \in {"load", "failed"}
        /\ figs = <<>>
        /\ response.page = <<>>
        /\ pc = "failed" => (error = "KeyError" /\ response.status = 500)

C6_Witness == MissingPM25 /\ pc = "failed" /\ error = "KeyError" /\ figs = <<>>

FrozenStep == pc \in ChartStage => (DerivedCols \subseteq df.columns /\ df' = df)

\* C7 (as stated): the four derived columns are attached before the first chart
\* is built, and from the first chart step on the dataset does not change.
C7_FrozenAfterDeriver == [][FrozenStep]_vars

ColumnsOnlyAddedStep ==
    pc \in ChartStage =>
        /\ {"Air_Quality_Level", "Exceeds_WHO"} \subseteq df.columns
        /\ df.columns \subseteq df'.columns
        /\ Len(df'.rows) = Len(df.rows)
        /\ \A k \in Rows : \A c \in df.columns : df'.rows[k][c] = df.rows[k][c]
        /\ "Risk_Quadrant" \in df'.columns \ df.columns => pc = "q6"
        /\ "Humidity_Bin" \in df'.columns \ df.columns => pc = "q9"
        /\ df'.columns \ df.columns \subseteq {"Risk_Quadrant", "Humidity_Bin"}

\* C7 (amended): Air_Quality_Level and Exceeds_WHO are attached before the first
\* chart is built; Risk_Quadrant is attached in chart 6's section and
\* Humidity_Bin in chart 9's; from the first chart step on columns are only
\* added, and no column already attached is removed or changes a value.
C7_ColumnsOnlyAdded == [][ColumnsOnlyAddedStep]_vars

C7_Witness == pc = "done" /\ DerivedCols \subseteq df.columns /\ Len(df.rows) = 3

\* C8: a page is returned only after the loader, all ten chart sections and
\* the summary have completed without failure; a request in which a step
\* failed ends in an error and carries no page, not even a partial one.
C8_NoPartialPage ==
    /\ response.page # <<>> =>
          /\ response.status = 200
          /\ pc = "done"
          /\ error = "none"
          /\ DOMAIN figs = 1..10
          /\ stats # <<>>
          /\ DOMAIN response.page[1].charts = 1..10
          /\ response.page[1].stats = stats[1]
    /\ response.status = 200 => response.page # <<>>
    /\ pc = "failed" => (response = ErrorResponse /\ error # "none")
    /\ error # "none" => pc = "failed"

C8_Witness ==
    /\ pc = "failed"
    /\ Cardinality(DOMAIN figs) \in 1..9
    /\ response = ErrorResponse

\* C10: the height of chart 8's reference line, the count of rows with
\* PM2.5 > 150, equals the number of rows whose Air_Quality_Level is
\* 'Hazardous', the Hazardous bar of the same chart.
C10_LineEqualsHazardousBar ==
    8 \in DOMAIN figs =>
        /\ figs[8].overlays[1].hline = figs[8].traces[1]["Hazardous"]
        /\ figs[8].overlays[1].hline = CountEqual(Column(df, "Air_Quality_Level"), "Hazardous")
        /\ figs[8].overlays[1].hline = CountAbove(Column(df, "PM2.5"), 150)

C10_Witness ==
    /\ 8 \in DOMAIN figs
    /\ figs[8].overlays[1].hline = 1
    /\ \E k \in Rows : df.rows[k]["PM2.5"] = 150
    /\ \E k \in Rows : df.rows[k]["PM2.5"] = 151

\* C9 (as stated): run in any permutation or interleaving, the ten chart
\* sections build the same ten chart specifications and the same summary as
\* in the order 1..10.
C9_AnyInterleavingSame ==
    pc = "joined" =>
        /\ figs = InOrder(csv, lowessOK).figs
        /\ stats = <<Describe(InOrder(csv, lowessOK).df)>>

\* C9 (amended): run in any permutation or interleaving, the sections build
\* the same summary and the same chart specification for every chart but 3
\* and 9; charts 3 and 9 are the same too when the LOESS routine is available,
\* or when neither section assigns df_sorted while the other still reads it
\* (so in every permutation of whole sections).
C9_SameUnlessSortedClobbered ==
    pc = "joined" =>
        /\ DOMAIN figs = 1..10
        /\ \A i \in (1..10) \ {3, 9} : figs[i] = InOrder(csv, lowessOK).figs[i]
        /\ stats = <<Describe(InOrder(csv, lowessOK).df)>>
        /\ (lowessOK \/ ~clobbered) => figs = InOrder(csv, lowessOK).figs

\* chart 3 ran after chart 9's fallback: df_sorted is last sorted by density
C9_Witness ==
    /\ pc = "joined"
    /\ ~lowessOK
    /\ ~clobbered
    /\ Column(df_sorted, "Population_Density") = <<100, 500, 900>>
    /\ figs = InOrder(csv, lowessOK).figs

====
